---- MODULE Spec2Model ----
(***************************************************************************)
(* A model of rspredict/data/datarequester.py: the RSDataRequester object, *)
(* its setter set_data_filter and its attribute integrate_social, the      *)
(* price pipeline get_historical_prices (acquisition, temporal             *)
(* normalisation, per-item differences and moving averages, the artifact   *)
(* filter, the optional merge with the daily event table) and the event    *)
(* aggregation get_social_media_data.  set_game_base and the category      *)
(* lookups are not modelled: game_base keeps the value of __init__ and     *)
(* the ids of a call are those of indiv_item_ids.                          *)
(*                                                                         *)
(* Representation.                                                         *)
(*  - A data frame is a sequence of records; position p of the sequence is *)
(*    the row with index label p-1 of the RangeIndex.                      *)
(*  - A float column holds exact rationals <<num, den>> in lowest terms    *)
(*    with den > 0; NaN is <<0, 0>>.  Prices are small integers, so the    *)
(*    float64 comparisons of the code agree with the exact ones.           *)
(*  - A timestamp is kept in seconds, the value ts/1000 the code hands to  *)
(*    datetime.fromtimestamp (epoch milliseconds do not fit the 32-bit     *)
(*    integers of TLC).                                                    *)
(*  - A date string 'YYYY-MM-DD' is the tuple <<y, m, d>>; comparing the   *)
(*    zero-padded strings is comparing the tuples lexicographically.       *)
(*  - A str is a sequence of one-character strings.                        *)
(*  - The 18 exponential-window rolling means of the event table (lines    *)
(*    424-434) are floating-point and are not modelled; no column modelled *)
(*    here depends on them.                                                *)
(***************************************************************************)
EXTENDS Integers, Sequences, FiniteSets, TLC

VARIABLES
    integrate_social,  \* self.integrate_social
    game_base,         \* self.game_base
    data_filter,       \* self.data_filter
    setting,           \* the argument of the set_data_filter call that has just
                       \* returned (<<>> once anything else has run)
    stdout,            \* what that call printed ("" if nothing)
    pc,                \* position of the running call ("idle": no call)
    caller,            \* who called get_social_media_data: "user", "pipeline", "none"
    all_set,           \* ids of all_set still to iterate, in iteration order
    all_prices,        \* the list all_prices of get_raw_historical_prices
    ge_df,             \* the frame ge_df of get_historical_prices
    ge_enriched_df,    \* the artifact filter's output
    social_dict_list,  \* the announcement records collected by the page loop
    social_agg_df,     \* the frame get_social_media_data returns
    ge_final_df,       \* the frame get_historical_prices returns
    requests,          \* the HTTP requests of the running call, in order
    stages             \* the pipeline stages the running call has executed

vars == <<integrate_social, game_base, data_filter, setting, stdout, pc, caller, all_set,
          all_prices, ge_df, ge_enriched_df, social_dict_list, social_agg_df,
          ge_final_df, requests, stages>>

-----------------------------------------------------------------------------
(* Bounds of the model. *)

\* The largest number of items one call requests.
MaxItems == 2

\* The length of the long price histories the exchange API returns.
MaxLen == 32

\* The number of turns for which the page loop is followed; a call whose loop
\* has not ended by then is not followed further.
MaxLoopTurns == 128

-----------------------------------------------------------------------------
(* Generic helpers. *)

Range(s) == {s[i] : i \in DOMAIN s}

Min2(a, b) == IF a <= b THEN a ELSE b

Abs(n) == IF n < 0 THEN -n ELSE n

RECURSIVE GCD(_, _)
GCD(a, b) == IF b = 0 THEN a ELSE GCD(b, a % b)

RECURSIVE Flatten(_)
Flatten(ss) == IF ss = <<>> THEN <<>> ELSE Head(ss) \o Flatten(Tail(ss))

\* All orderings of the elements of a finite set.
RECURSIVE Permutations_(_)
Permutations_(S) ==
    IF S = {} THEN {<<>>}
    ELSE UNION {{<<x>> \o p : p \in Permutations_(S \ {x})} : x \in S}

-----------------------------------------------------------------------------
(* Floats: exact rationals, NaN. *)

NaN == <<0, 0>>

IsNull(v) == v[2] = 0

Rat(n, d) ==
    LET g == GCD(Abs(n), Abs(d))
        s == IF d < 0 THEN -1 ELSE 1
    IN  <<(s * n) \div g, (s * d) \div g>>

Float(n) == <<n, 1>>

\* a - b on floats; NaN if either is NaN.
FSub(a, b) ==
    IF IsNull(a) \/ IsNull(b) THEN NaN
    ELSE Rat(a[1] * b[2] - b[1] * a[2], a[2] * b[2])

\* The comparison `x != 0` of a float column: True for NaN.
NotZero(v) == IsNull(v) \/ v[1] # 0

-----------------------------------------------------------------------------
(* Dates: datetime.fromtimestamp(.., UTC), strftime, strptime, date_range. *)

\* Day number (days since 1970-01-01) of a timestamp in seconds.
DayOf(secs) == secs \div 86400

\* The proleptic Gregorian date <<y, m, d>> of a day number.
CivilFromDays(days) ==
    LET z   == days + 719468
        era == z \div 146097
        doe == z - era * 146097
        yoe == (doe - doe \div 1460 + doe \div 36524 - doe \div 146096) \div 365
        doy == doe - (365 * yoe + yoe \div 4 - yoe \div 100)
        mp  == (5 * doy + 2) \div 153
        d   == doy - (153 * mp + 2) \div 5 + 1
        m   == IF mp < 10 THEN mp + 3 ELSE mp - 9
        y   == yoe + era * 400 + (IF m <= 2 THEN 1 ELSE 0)
    IN  <<y, m, d>>

\* The day number of a date <<y, m, d>>.
DaysFromCivil(date) ==
    LET y   == date[1] - (IF date[2] <= 2 THEN 1 ELSE 0)
        era == y \div 400
        yoe == y - era * 400
        mp  == IF date[2] > 2 THEN date[2] - 3 ELSE date[2] + 9
        doy == (153 * mp + 2) \div 5 + date[3] - 1
        doe == yoe * 365 + yoe \div 4 - yoe \div 100 + doy
    IN  era * 146097 + doe - 719468

\* String order of two date strings.
DateLess(a, b) ==
    \/ a[1] < b[1]
    \/ a[1] = b[1] /\ a[2] < b[2]
    \/ a[1] = b[1] /\ a[2] = b[2] /\ a[3] < b[3]

DateMin(a, b) == IF DateLess(b, a) THEN b ELSE a

DateMax(a, b) == IF DateLess(a, b) THEN b ELSE a

unix_to_date_string(secs) == CivilFromDays(DayOf(secs))

unix_to_datetime(secs) == CivilFromDays(DayOf(secs)) \o <<secs % 86400>>

\* 1970-01-01 was a Thursday (weekday() = 3).
unix_is_weekday(secs) == IF (DayOf(secs) + 3) % 7 < 5 THEN 1 ELSE 0

-----------------------------------------------------------------------------
(* Strings. *)

LowerChar(c) ==
    CASE c = "A" -> "a" [] c = "L" -> "l" [] c = "S" -> "s" [] c = "T" -> "t"
      [] c = "D" -> "d" [] c = "M" -> "m" [] c = "P" -> "p" [] c = "E" -> "e"
      [] c = "O" -> "o" [] c = "R" -> "r"
      [] OTHER -> c

\* str.lower()
Lower(s) == [i \in 1..Len(s) |-> LowerChar(s[i])]

\* `kw in title` for two str values.
Contains(title, kw) ==
    \E i \in 1..(Len(title) - Len(kw) + 1) : SubSeq(title, i, i + Len(kw) - 1) = kw

\* The decimal digits of a natural number: str(n).
RECURSIVE Digits(_)
Digits(n) == IF n < 10 THEN <<n>> ELSE Append(Digits(n \div 10), n % 10)

\* String order s < t on two digit strings.
RECURSIVE LexLess(_, _)
LexLess(s, t) ==
    IF t = <<>> THEN FALSE
    ELSE IF s = <<>> THEN TRUE
    ELSE IF Head(s) # Head(t) THEN Head(s) < Head(t)
    ELSE LexLess(Tail(s), Tail(t))

-----------------------------------------------------------------------------
(* The exchange API: what get_item_historical_prices may return. *)

\* The item ids a caller may request.
ItemIds == {2, 9, 10}

\* 2023-12-01T00:00:00Z in seconds.
StartSecs == DaysFromCivil(<<2023, 12, 1>>) * 86400

\* The price histories the API may return for an item: n records, a price
\* pattern and a timestamp pattern.
Shapes ==
    { [n |-> 0,      prices |-> "linear", times |-> "daily"],
      [n |-> 30,     prices |-> "linear", times |-> "halfday"],
      [n |-> MaxLen, prices |-> "linear", times |-> "daily"],
      [n |-> MaxLen, prices |-> "dip",    times |-> "daily"],
      [n |-> MaxLen, prices |-> "linear", times |-> "swapped"] }

\* The price of record i (from 0) of a history: rising by one a record, or
\* rising but back at the price of record 24 on record 31.
PriceAt(shape, i) ==
    CASE shape.prices = "linear" -> 100 + i
      [] shape.prices = "dip"    -> IF i = 31 THEN 124 ELSE 100 + i

\* The timestamp of record i (from 0) of a history: one record a day, two
\* records a day, or one a day with records 30 and 31 delivered in the
\* wrong order.
TimeAt(shape, i) ==
    CASE shape.times = "daily"   -> StartSecs + i * 86400
      [] shape.times = "halfday" -> StartSecs + i * 43200
      [] shape.times = "swapped" ->
            StartSecs + 86400 * (IF i = 30 THEN 31 ELSE IF i = 31 THEN 30 ELSE i)

\* r_prices.json()[f"{item_id}"]: the records of one item (the id is a str).
ItemHistory(item_id, shape) ==
    [i \in 1..shape.n |->
        [id        |-> Digits(item_id),
         price     |-> PriceAt(shape, i - 1),
         volume    |-> 1000 + (i - 1),
         timestamp |-> TimeAt(shape, i - 1)]]

\* The endpoint of a price request (line 154).
PriceRequest(item_id) ==
    [endpoint |-> "exchange/history", game |-> game_base, filter |-> data_filter,
     id |-> item_id, page |-> 0]

-----------------------------------------------------------------------------
(* Frames: column assignment, groupby("id"), diff, rolling mean.           *)
(* An operator's argument is evaluated once, so the frames and columns    *)
(* are handed on as arguments; `\o <<>>` builds a sequence once and for   *)
(* all.                                                                   *)

Column(df, name) == [p \in 1..Len(df) |-> df[p][name]] \o <<>>

\* df[name] = col, col being labelled 0..n-1 like df: aligned by position.
AssignColumn(df, name, col) ==
    [p \in 1..Len(df) |-> df[p] @@ (name :> col[p])] \o <<>>

\* The group keys in the order groupby(sort=True) yields them: str order.
RECURSIVE SortKeys(_)
SortKeys(S) ==
    IF S = {} THEN <<>>
    ELSE LET m == CHOOSE x \in S : \A y \in S \ {x} : LexLess(x, y)
         IN  <<m>> \o SortKeys(S \ {m})

GroupKeys(ids) == SortKeys(Range(ids))

\* The positions of the rows of one group, in frame order.
GroupRows(ids, key) ==
    SelectSeq([p \in 1..Len(ids) |-> p], LAMBDA p : ids[p] = key)

\* DiffInGroup as it would be without the groupby: the row k places up in
\* the frame, whatever its item.
DiffAcrossFrame(vals, G, k, i) ==
    IF G[i] > k THEN FSub(vals[G[i]], vals[G[i] - k]) ELSE NaN

\* Series.diff(k) within one group: the value of the i-th row of the group.
DiffInGroup(vals, G, k, i) ==
    IF i > k THEN FSub(vals[G[i]], vals[G[i - k]]) ELSE NaN

\* The groups of groupby("id"): the row positions of each key.
Groups(ids) == [key \in Range(ids) |-> GroupRows(ids, key)] @@ <<>>

\* The place of the row at position p within its group G.
PlaceIn(G, p) == CHOOSE i \in DOMAIN G : G[i] = p

\* Each group's diff(k), written back at the positions of the group's rows.
GroupDiffOver(groups, ids, vals, k) ==
    [p \in 1..Len(ids) |->
        DiffInGroup(vals, groups[ids[p]], k, PlaceIn(groups[ids[p]], p))] \o <<>>

\* df.groupby("id")[col].diff(k): a column aligned with the frame's index.
GroupDiff(ids, vals, k) == GroupDiffOver(Groups(ids), ids, vals, k)

RECURSIVE SumRange(_, _, _)
SumRange(s, lo, hi) == IF lo > hi THEN 0 ELSE s[hi] + SumRange(s, lo, hi - 1)

\* Series.rolling(w, 1).mean() of one group's values: the mean of the
\* trailing min(w, i) values at the i-th row of the group.
RollingMean(gvals, w) ==
    [i \in 1..Len(gvals) |->
        Rat(SumRange(gvals, IF i - w + 1 < 1 THEN 1 ELSE i - w + 1, i), Min2(w, i))] \o <<>>

\* The values of one group, in group order.
GroupValues(vals, G) == [i \in 1..Len(G) |-> vals[G[i]]] \o <<>>

RECURSIVE GroupRollingOver(_, _, _, _)
GroupRollingOver(keys, ids, vals, w) ==
    IF keys = <<>> THEN <<>>
    ELSE RollingMean(GroupValues(vals, GroupRows(ids, Head(keys))), w)
            \o GroupRollingOver(Tail(keys), ids, vals, w)

\* df.groupby("id")[col].rolling(w, 1).mean().reset_index(drop=True): the
\* groups' rolling means one group after the other, in group-key order,
\* relabelled 0..n-1.
GroupRolling(ids, vals, w) == GroupRollingOver(GroupKeys(ids), ids, vals, w)

\* The price column as floats.
FloatColumn(df, name) == [p \in 1..Len(df) |-> Float(df[p][name])] \o <<>>

\* df[name] = df.groupby("id")["price"].diff(k)
AddPriceDiff(df, name, k) ==
    AssignColumn(df, name, GroupDiff(Column(df, "id"), FloatColumn(df, "price"), k))

\* df[name] = df.groupby("id")["price"].rolling(w, 1).mean().reset_index(drop=True)
AddRolling(df, name, w) ==
    AssignColumn(df, name, GroupRolling(Column(df, "id"), Column(df, "price"), w))

\* df[name] = df.groupby("id")[of].diff(1)
AddColumnDiff(df, name, of) ==
    AssignColumn(df, name, GroupDiff(Column(df, "id"), Column(df, of), 1))

-----------------------------------------------------------------------------
(* The stages of get_historical_prices. *)

\* Lines 459-461.
Normalise(df) ==
    [p \in 1..Len(df) |->
        df[p] @@ [date        |-> unix_to_datetime(df[p].timestamp),
                  date_string |-> unix_to_date_string(df[p].timestamp),
                  weekday     |-> unix_is_weekday(df[p].timestamp)]] \o <<>>

\* Lines 464-467.
AddDiffs(df) ==
    AddPriceDiff(AddPriceDiff(AddPriceDiff(AddPriceDiff(df,
        "diff_1_day", 1), "diff_7_day", 7), "diff_14_day", 14), "diff_30_day", 30)

\* Lines 470-472.
AddMovingAverages(df) ==
    AddRolling(AddRolling(AddRolling(df,
        "ma_7_day", 7), "ma_14_day", 14), "ma_30_day", 30)

\* Lines 475-477.
AddMovingAverageDiffs(df) ==
    AddColumnDiff(AddColumnDiff(AddColumnDiff(df,
        "diff_ma_7_day", "ma_7_day"), "diff_ma_14_day", "ma_14_day"),
        "diff_ma_30_day", "ma_30_day")

\* Lines 464-477.
AddFeatures(df) == AddMovingAverageDiffs(AddMovingAverages(AddDiffs(df)))

\* cond1 with | for &: a row is an artifact only if all three are zero.
cond1_any(r) ==
    NotZero(r.diff_ma_7_day) \/ NotZero(r.diff_ma_14_day) \/ NotZero(r.diff_ma_30_day)

\* Line 484.
cond1(r) ==
    NotZero(r.diff_ma_7_day) /\ NotZero(r.diff_ma_14_day) /\ NotZero(r.diff_ma_30_day)

\* Line 485.
cond2(r) ==
    ~IsNull(r.diff_ma_7_day) /\ ~IsNull(r.diff_ma_14_day) /\ ~IsNull(r.diff_ma_30_day)

\* cond3 with the test of diff_30_day left out.
cond3_no30(r) ==
    ~IsNull(r.diff_1_day) /\ ~IsNull(r.diff_7_day) /\ ~IsNull(r.diff_14_day)

\* Line 486.
cond3(r) ==
    /\ ~IsNull(r.diff_1_day) /\ ~IsNull(r.diff_7_day)
    /\ ~IsNull(r.diff_14_day) /\ ~IsNull(r.diff_30_day)

\* Line 489: ge_df[cond1 & cond2 & cond3].copy().reset_index(); reset_index
\* keeps the old label of each surviving row in the column "index".
ArtifactFilter(df) ==
    SelectSeq([p \in 1..Len(df) |-> df[p] @@ [index |-> p - 1]] \o <<>>,
              LAMBDA r : cond1(r) /\ cond2(r) /\ cond3(r))

-----------------------------------------------------------------------------
(* The social API: what the announcement endpoint may return. *)

\* Failsafe of the page loop.
max_iter == 100

KwLaunch == <<"L", "a", "u", "n", "c", "h">>
KwBoss   == <<"B", "o", "s", "s">>
KwQuest  == <<"Q", "u", "e", "s", "t">>
KwEvent  == <<"E", "v", "e", "n", "t">>
KwDXP    == <<"D", "o", "u", "b", "l", "e", " ", "X", "P">>
KwUpdate == <<"U", "p", "d", "a", "t", "e">>

\* A title is a str, None (JSON null), or missing from the record; a key
\* missing from one record of a list of dicts is NaN in the DataFrame.
Str(text) == [kind |-> "str", text |-> text]
None      == [kind |-> "None", text |-> <<>>]
Missing   == [kind |-> "NaN", text |-> <<>>]

TitleBossLaunch == Str(KwBoss \o <<" ">> \o KwLaunch)
TitleQuestUpdate == Str(KwQuest \o <<" ">> \o KwUpdate)
TitleDXPEvent == Str(KwDXP \o <<" ">> \o KwEvent)
TitleLowerCase == Str(<<"b", "o", "s", "s", " ", "u", "p", "d", "a", "t", "e">>)

\* An announcement: dateAdded 'YYYY-MM-DDTHH...' as <<y, m, d, hh>>.
Ann(y, m, d, hh, title) == [dateAdded |-> <<y, m, d, hh>>, title |-> title]

\* The announcement feeds the API may serve: the data of its pages, and
\* whether it goes on reporting has_more = true after the last of them.
Feeds ==
    { [pages   |-> << <<Ann(2024, 1, 1, 9, TitleBossLaunch),
                        Ann(2024, 1, 5, 17, TitleQuestUpdate)>> >>,
       endless |-> FALSE],
      [pages   |-> << <<Ann(2024, 1, 5, 8, TitleDXPEvent),
                        Ann(2024, 1, 5, 12, None),
                        Ann(2024, 1, 3, 12, None)>>,
                      <<Ann(2023, 12, 30, 23, TitleLowerCase),
                        Ann(2024, 1, 5, 20, TitleBossLaunch)>> >>,
       endless |-> FALSE],
      [pages   |-> << <<Ann(2024, 2, 28, 10, TitleQuestUpdate)>>,
                      <<Ann(2024, 3, 1, 10, TitleDXPEvent)>> >>,
       endless |-> TRUE],
      [pages   |-> << <<Ann(2024, 1, 2, 9, TitleBossLaunch),
                        Ann(2024, 1, 2, 10, Missing)>> >>,
       endless |-> FALSE],
      [pages   |-> << <<>> >>,
       endless |-> FALSE] }

\* r_social.json() for one page of a feed.
PageResponse(feed, page) ==
    [data       |-> IF page <= Len(feed.pages) THEN feed.pages[page] ELSE <<>>,
     pagination |-> [has_more |-> feed.endless \/ page < Len(feed.pages)]]

\* Lines 355-359: the state of the page loop when it is entered.
LoopStart == [page |-> 1, halt |-> FALSE, social_dict_list |-> <<>>, asked |-> <<>>]

\* Lines 362-371: one iteration of the loop body; asked records the pages
\* requested.
LoopBody(feed, st) ==
    LET r_social == PageResponse(feed, st.page)
    IN  [page             |-> st.page + 1,
         halt             |-> IF r_social.pagination.has_more # TRUE THEN TRUE ELSE st.halt,
         social_dict_list |-> st.social_dict_list \o r_social.data,
         asked            |-> Append(st.asked, st.page)]

\* LoopGoesOn with the failsafe page <= max_iter left out.
LoopGoesOnUnbounded(st) == st.halt # TRUE

\* Line 361: the loop condition, while halt != True and page <= max_iter.
LoopGoesOn(st) == st.halt # TRUE /\ st.page <= max_iter

\* n turns of the while loop: the body while the condition holds; past the
\* end of the loop, nothing (halved, to keep the evaluation shallow).
RECURSIVE LoopTurns(_, _, _)
LoopTurns(feed, st, n) ==
    IF ~LoopGoesOn(st) \/ n = 0 THEN st
    ELSE IF n = 1 THEN LoopBody(feed, st)
    ELSE LoopTurns(feed, LoopTurns(feed, st, n \div 2), n - n \div 2)

\* Lines 361-371: the loop, followed for MaxLoopTurns turns.
PageLoop(feed, st) == LoopTurns(feed, st, MaxLoopTurns)

\* The request of one page (line 362).
SocialRequest(page) ==
    [endpoint |-> "runescape/social", game |-> "", filter |-> "", id |-> 0,
     page |-> page]

-----------------------------------------------------------------------------
(* get_social_media_data after the page loop. *)

\* Lines 386-391: `kw in x if x is not None else False`.
TitleFlag(title, kw) == IF title.kind = "None" THEN FALSE ELSE Contains(title.text, kw)

\* `kw in x` raises TypeError when x is NaN (a float).
TitleRaises(title) == title.kind = "NaN"

\* Lines 377-391 and 414: the classified announcement rows.
SocialTemp(list) ==
    [i \in 1..Len(list) |->
        [date_string    |-> SubSeq(list[i].dateAdded, 1, 3),
         launch_update  |-> TitleFlag(list[i].title, KwLaunch),
         quest_update   |-> TitleFlag(list[i].title, KwQuest),
         event_update   |-> TitleFlag(list[i].title, KwEvent),
         dxp_update     |-> TitleFlag(list[i].title, KwDXP),
         general_update |-> TitleFlag(list[i].title, KwUpdate),
         boss_update    |-> TitleFlag(list[i].title, KwBoss)]] \o <<>>

\* Series.min() / Series.max() of a non-empty column of date strings.
MinDate(col) == CHOOSE d \in Range(col) : \A e \in Range(col) : ~DateLess(e, d)

MaxDate(col) == CHOOSE d \in Range(col) : \A e \in Range(col) : ~DateLess(d, e)

\* Lines 402-406: strptime of the two bounds, pd.date_range between them
\* (both ends included), and strftime of each day (line 411).
RangeDays(lo, hi) ==
    [i \in 1..(DaysFromCivil(hi) - DaysFromCivil(lo) + 1) |->
        CivilFromDays(DaysFromCivil(lo) + (i - 1))] \o <<>>

\* Lines 409-411 and 416: one all-False row per day of the range.
SocialAppend(days) ==
    [i \in 1..Len(days) |->
        [date_string    |-> days[i],
         launch_update  |-> FALSE,
         quest_update   |-> FALSE,
         event_update   |-> FALSE,
         dxp_update     |-> FALSE,
         general_update |-> FALSE,
         boss_update    |-> FALSE]]

\* The date strings of a non-empty set in sorted order: those of the days
\* from the least to the greatest that are in the set.
DatesBetween(S, lo, hi) ==
    SelectSeq([i \in 1..(hi - lo + 1) |-> CivilFromDays(lo + (i - 1))],
              LAMBDA d : d \in S)

DayNumbers(S) == {DaysFromCivil(d) : d \in S}

SortDates(S) ==
    DatesBetween(S, CHOOSE a \in DayNumbers(S) : \A b \in DayNumbers(S) : a <= b,
                    CHOOSE a \in DayNumbers(S) : \A b \in DayNumbers(S) : a >= b)

\* any() over the rows of one date string.
AnyOf(rows, key, col) ==
    \E i \in 1..Len(rows) : rows[i].date_string = key /\ rows[i][col]

GroupAnyOver(rows, keys) ==
    [j \in 1..Len(keys) |->
        [date_string    |-> keys[j],
         launch_update  |-> AnyOf(rows, keys[j], "launch_update"),
         quest_update   |-> AnyOf(rows, keys[j], "quest_update"),
         event_update   |-> AnyOf(rows, keys[j], "event_update"),
         dxp_update     |-> AnyOf(rows, keys[j], "dxp_update"),
         general_update |-> AnyOf(rows, keys[j], "general_update"),
         boss_update    |-> AnyOf(rows, keys[j], "boss_update")]] \o <<>>

\* Line 420: groupby(["date_string"], as_index=False).any(): one row per
\* date string, in sorted order, each flag the OR over the rows of the date.
GroupAny(rows) ==
    GroupAnyOver(rows, SortDates({rows[i].date_string : i \in 1..Len(rows)}))

\* Whether lines 374-403 raise: no announcement at all (KeyError on
\* 'dateAdded'), a NaN title (TypeError), or an empty reference frame, whose
\* date_string.min() is NaN (TypeError in min(str, float)).
SocialRaises(list, has_ref, ref) ==
    \/ list = <<>>
    \/ \E i \in 1..Len(list) : TitleRaises(list[i].title)
    \/ has_ref /\ ref = <<>>

\* Lines 402-420, from the two bounds of the range (the arguments of the two
\* strptime calls).
SocialExpand(temp, sim_min_date, sim_max_date) ==
    GroupAny(temp \o SocialAppend(RangeDays(sim_min_date, sim_max_date)))

\* SocialBounds with the price bounds of lines 396-397 left out.
SocialBoundsUpdatesOnly(temp, dates, has_ref, ref) ==
    SocialExpand(temp, MinDate(dates), MaxDate(dates))

\* Lines 394-420 on the classified rows, when nothing raises: the update
\* bounds (lines 394-395), the price bounds (lines 396-397), their min and
\* max (lines 402-403).
SocialBounds(temp, dates, has_ref, ref) ==
    SocialExpand(temp,
        DateMin(MinDate(dates),
                IF has_ref THEN MinDate(Column(ref, "date_string")) ELSE MinDate(dates)),
        DateMax(MaxDate(dates),
                IF has_ref THEN MaxDate(Column(ref, "date_string")) ELSE MaxDate(dates)))

\* Lines 374-420, when nothing raises.
SocialAgg(list, has_ref, ref) ==
    SocialBounds(SocialTemp(list), Column(SocialTemp(list), "date_string"), has_ref, ref)

-----------------------------------------------------------------------------
(* The merge of line 494. *)

\* The event columns of a price row with no event row of its date.
NullEvent ==
    [launch_update |-> "NaN", quest_update |-> "NaN", event_update |-> "NaN",
     dxp_update |-> "NaN", general_update |-> "NaN", boss_update |-> "NaN"]

\* The rows a left row yields: one per event row of its date, or one with
\* nulls if there is none.
MergeRow(l, M) ==
    IF M = <<>> THEN <<l @@ NullEvent>> ELSE [j \in 1..Len(M) |-> l @@ M[j]] \o <<>>

RECURSIVE MergeFrom(_, _, _)
MergeFrom(left, right, i) ==
    IF i > Len(left) THEN <<>>
    ELSE MergeRow(left[i], SelectSeq(right, LAMBDA r : r.date_string = left[i].date_string))
            \o MergeFrom(left, right, i + 1)

\* The price columns of an event row that no price row matches.
NullPrice ==
    [c \in {"id", "price", "volume", "timestamp", "date", "weekday", "index",
            "diff_1_day", "diff_7_day", "diff_14_day", "diff_30_day",
            "ma_7_day", "ma_14_day", "ma_30_day",
            "diff_ma_7_day", "diff_ma_14_day", "diff_ma_30_day"} |-> NaN]

RECURSIVE MergeRightFrom(_, _, _)
MergeRightFrom(left, right, j) ==
    IF j > Len(right) THEN <<>>
    ELSE (IF \E i \in 1..Len(left) : left[i].date_string = right[j].date_string
          THEN [i \in 1..Len(SelectSeq(left, LAMBDA l : l.date_string = right[j].date_string)) |->
                   SelectSeq(left, LAMBDA l : l.date_string = right[j].date_string)[i] @@ right[j]]
          ELSE <<right[j] @@ NullPrice>>)
         \o MergeRightFrom(left, right, j + 1)

\* Merge with how="right": the event table drives the result.
MergeRight(left, right) == MergeRightFrom(left, right, 1)

\* left.merge(right, on date_string, how="left"): the rows of every left row,
\* in left order.
Merge(left, right) == MergeFrom(left, right, 1)

\* AfterFilter with the test of integrate_social left out.
AfterFilterAlways(flag) == "social"

\* Lines 491-492: what follows the artifact filter.
AfterFilter(flag) == IF flag THEN "social" ELSE "done"

-----------------------------------------------------------------------------
(* The setters. *)

S_last90d == <<"l", "a", "s", "t", "9", "0", "d">>
S_sample  == <<"s", "a", "m", "p", "l", "e">>
S_all     == <<"a", "l", "l">>

\* The strings a caller may pass to set_data_filter.
FilterSettings ==
    { S_last90d, <<"L", "a", "s", "t", "9", "0", "D">>, S_sample,
      <<"S", "A", "M", "P", "L", "E">>, S_all, <<"A", "l", "l">>,
      <<"w", "e", "e", "k">> }

\* Lines 128-133: the value of self.data_filter when the setter returns.
\* The if/elif assigns last90d or sample; line 133 then assigns all.
DataFilterAfter(s) ==
    LET branch == IF Lower(s) = S_last90d THEN "last90d"
                  ELSE IF Lower(s) = S_sample THEN "sample"
                  ELSE data_filter
        final  == "all"
    IN  final

\* Lines 128-135.
set_data_filter(s) ==
    /\ pc = "idle"
    /\ data_filter' = DataFilterAfter(s)
    /\ stdout' = IF Lower(s) # S_all THEN "invalid data filter" ELSE ""
    /\ setting' = s
    /\ UNCHANGED <<integrate_social, game_base, pc, caller, all_set, all_prices,
                   ge_df, ge_enriched_df, social_dict_list, social_agg_df,
                   ge_final_df, requests, stages>>

\* The caller assigns the public attribute integrate_social (line 85).
set_integrate_social(flag) ==
    /\ pc = "idle"
    /\ integrate_social' = flag
    /\ setting' = <<>>
    /\ stdout' = ""
    /\ UNCHANGED <<game_base, data_filter, pc, caller, all_set, all_prices,
                   ge_df, ge_enriched_df, social_dict_list, social_agg_df,
                   ge_final_df, requests, stages>>

-----------------------------------------------------------------------------
(* The calls. *)

\* The requested ids in the iteration order of the set all_set (line 326).
\* The order of a set is the implementation's: any order may occur.
Batches ==
    UNION {Permutations_(S) : S \in {T \in SUBSET ItemIds : Cardinality(T) <= MaxItems}}

Init ==
    /\ integrate_social = FALSE
    /\ game_base = "rs"
    /\ data_filter = "all"
    /\ setting = <<>>
    /\ stdout = ""
    /\ pc = "idle"
    /\ caller = "none"
    /\ all_set = <<>>
    /\ all_prices = <<>>
    /\ ge_df = <<>>
    /\ ge_enriched_df = <<>>
    /\ social_dict_list = <<>>
    /\ social_agg_df = <<>>
    /\ ge_final_df = <<>>
    /\ requests = <<>>
    /\ stages = <<>>

\* A caller enters get_historical_prices(indiv_item_ids, categories).
CallGetHistoricalPrices ==
    /\ pc = "idle"
    /\ \E order \in Batches : all_set' = order
    /\ pc' = "acquire"
    /\ setting' = <<>>
    /\ stdout' = ""
    /\ UNCHANGED <<integrate_social, game_base, data_filter, caller, all_prices,
                   ge_df, ge_enriched_df, social_dict_list, social_agg_df,
                   ge_final_df, requests, stages>>

\* Lines 326-327 and 154-162: one iteration of the loop over all_set.
FetchItem ==
    /\ pc = "acquire"
    /\ all_set # <<>>
    /\ \E shape \in Shapes :
          all_prices' = all_prices \o ItemHistory(Head(all_set), shape)
    /\ requests' = Append(requests, PriceRequest(Head(all_set)))
    /\ all_set' = Tail(all_set)
    /\ UNCHANGED <<integrate_social, game_base, data_filter, setting, stdout, pc, caller,
                   ge_df, ge_enriched_df, social_dict_list, social_agg_df,
                   ge_final_df, stages>>

\* Lines 329 and 456: get_raw_historical_prices returns
\* pd.DataFrame(all_prices), which becomes ge_df.
BuildFrame ==
    /\ pc = "acquire"
    /\ all_set = <<>>
    /\ ge_df' = all_prices
    /\ all_prices' = <<>>
    /\ pc' = "normalise"
    /\ stages' = Append(stages, "acquire")
    /\ UNCHANGED <<integrate_social, game_base, data_filter, setting, stdout, caller,
                   all_set, ge_enriched_df, social_dict_list, social_agg_df,
                   ge_final_df, requests>>

\* Lines 459-461.  A frame built from no record has no column, and
\* ge_df['timestamp'] raises KeyError.
NormaliseStep ==
    /\ pc = "normalise"
    /\ IF ge_df = <<>>
       THEN /\ pc' = "error"
            /\ UNCHANGED <<ge_df, stages>>
       ELSE /\ ge_df' = Normalise(ge_df)
            /\ pc' = "features"
            /\ stages' = Append(stages, "normalise")
    /\ UNCHANGED <<integrate_social, game_base, data_filter, setting, stdout, caller,
                   all_set, all_prices, ge_enriched_df, social_dict_list,
                   social_agg_df, ge_final_df, requests>>

\* Lines 464-477.
FeaturesStep ==
    /\ pc = "features"
    /\ ge_df' = AddFeatures(ge_df)
    /\ pc' = "filter"
    /\ stages' = Append(stages, "features")
    /\ UNCHANGED <<integrate_social, game_base, data_filter, setting, stdout, caller,
                   all_set, all_prices, ge_enriched_df, social_dict_list,
                   social_agg_df, ge_final_df, requests>>

\* Lines 484-492.
FilterStep ==
    /\ pc = "filter"
    /\ ge_enriched_df' = ArtifactFilter(ge_df)
    /\ ge_final_df' = ge_enriched_df'
    /\ pc' = AfterFilter(integrate_social)
    /\ caller' = IF AfterFilter(integrate_social) = "social" THEN "pipeline" ELSE caller
    /\ stages' = Append(stages, "filter")
    /\ UNCHANGED <<integrate_social, game_base, data_filter, setting, stdout, all_set,
                   all_prices, ge_df, social_dict_list, social_agg_df, requests>>

\* A caller enters get_social_media_data() with no reference frame.
CallGetSocialMediaData ==
    /\ pc = "idle"
    /\ pc' = "social"
    /\ caller' = "user"
    /\ setting' = <<>>
    /\ stdout' = ""
    /\ UNCHANGED <<integrate_social, game_base, data_filter, all_set, all_prices,
                   ge_df, ge_enriched_df, social_dict_list, social_agg_df,
                   ge_final_df, requests, stages>>

\* Lines 373-436 on the outcome of the page loop.
SocialAfterLoop(loop, has_ref) ==
    /\ ~LoopGoesOn(loop)
    /\ social_dict_list' = loop.social_dict_list
    /\ requests' = requests \o [i \in 1..Len(loop.asked) |-> SocialRequest(loop.asked[i])]
    /\ IF SocialRaises(loop.social_dict_list, has_ref, ge_final_df)
       THEN /\ pc' = "error"
            /\ UNCHANGED <<social_agg_df, stages>>
       ELSE /\ social_agg_df' = SocialAgg(loop.social_dict_list, has_ref, ge_final_df)
            /\ pc' = IF has_ref THEN "merge" ELSE "done"
            /\ stages' = Append(stages, "social")

\* Lines 354-436: get_social_media_data(ref_df), ref_df being ge_final_df when
\* the pipeline calls it (line 493) and None when a user calls it.
GetSocialMediaData ==
    /\ pc = "social"
    /\ \E feed \in Feeds : SocialAfterLoop(PageLoop(feed, LoopStart), caller = "pipeline")
    /\ UNCHANGED <<integrate_social, game_base, data_filter, setting, stdout, caller,
                   all_set, all_prices, ge_df, ge_enriched_df, ge_final_df>>

\* Line 494.
MergeStep ==
    /\ pc = "merge"
    /\ ge_final_df' = Merge(ge_enriched_df, social_agg_df)
    /\ pc' = "done"
    /\ stages' = Append(stages, "merge")
    /\ UNCHANGED <<integrate_social, game_base, data_filter, setting, stdout, caller,
                   all_set, all_prices, ge_df, ge_enriched_df, social_dict_list,
                   social_agg_df, requests>>

\* The call returns its frame, or its exception reaches the caller; the
\* locals of the call are gone.
Return ==
    /\ pc \in {"done", "error"}
    /\ pc' = "idle"
    /\ caller' = "none"
    /\ all_set' = <<>>
    /\ all_prices' = <<>>
    /\ ge_df' = <<>>
    /\ ge_enriched_df' = <<>>
    /\ social_dict_list' = <<>>
    /\ social_agg_df' = <<>>
    /\ ge_final_df' = <<>>
    /\ requests' = <<>>
    /\ stages' = <<>>
    /\ UNCHANGED <<integrate_social, game_base, data_filter, setting, stdout>>

SetDataFilter == \E s \in FilterSettings : set_data_filter(s)

SetIntegrateSocial == \E flag \in BOOLEAN : set_integrate_social(flag)

Next ==
    \/ SetDataFilter
    \/ SetIntegrateSocial
    \/ CallGetHistoricalPrices
    \/ FetchItem
    \/ BuildFrame
    \/ NormaliseStep
    \/ FeaturesStep
    \/ FilterStep
    \/ CallGetSocialMediaData
    \/ GetSocialMediaData
    \/ MergeStep
    \/ Return

Spec == Init /\ [][Next]_vars

-----------------------------------------------------------------------------
(* Vocabulary of the properties. *)

\* The running call has computed the features / filtered / built the daily
\* event table / merged.
Featured   == "features" \in Range(stages)
Filtered   == "filter" \in Range(stages)
Aggregated == "social" \in Range(stages)
Merged     == "merge" \in Range(stages)

ItemsOf(df) == {df[p].id : p \in 1..Len(df)}

\* The partition of an item: the positions of its rows, in frame order.
RowsOfItem(df, x) == SelectSeq([p \in 1..Len(df) |-> p], LAMBDA p : df[p].id = x)

DiffColumn(k) ==
    CASE k = 1 -> "diff_1_day" [] k = 7 -> "diff_7_day"
      [] k = 14 -> "diff_14_day" [] k = 30 -> "diff_30_day"

MAColumn(w) == CASE w = 7 -> "ma_7_day" [] w = 14 -> "ma_14_day" [] w = 30 -> "ma_30_day"

DiffMAColumn(w) ==
    CASE w = 7 -> "diff_ma_7_day" [] w = 14 -> "diff_ma_14_day" [] w = 30 -> "diff_ma_30_day"

-----------------------------------------------------------------------------
(* C1 *)

PartitionSorted(df, G) ==
    \A i \in 1..(Len(G) - 1) : df[G[i]].timestamp <= df[G[i + 1]].timestamp

\* C1: after the per-item feature computation, the rows of every item are in
\* non-decreasing timestamp order, in whatever order the records arrived.
C1_PartitionsSorted ==
    Featured => \A x \in ItemsOf(ge_df) : PartitionSorted(ge_df, RowsOfItem(ge_df, x))

-----------------------------------------------------------------------------
(* C2 *)

BaseColumns == {"id", "price", "volume", "timestamp", "date", "date_string", "weekday"}

BaseRow(r) == [c \in BaseColumns |-> r[c]]

\* The features of one item's rows when the item is processed alone.
ItemAlone(df, G) == AddFeatures([i \in 1..Len(G) |-> BaseRow(df[G[i]])] \o <<>>)

SameAsAlone(df, G, alone) == \A i \in 1..Len(G) : df[G[i]] = alone[i]

\* C2: in a batch of several items, whatever the order of the items in the raw
\* table, every diff, ma and diff_ma value on a row of an item is the value the
\* row has when the item is processed alone.
C2_NoMixing ==
    Featured =>
        \A x \in ItemsOf(ge_df) :
            SameAsAlone(ge_df, RowsOfItem(ge_df, x), ItemAlone(ge_df, RowsOfItem(ge_df, x)))

-----------------------------------------------------------------------------
(* C3 *)

DiffsRight(df, G) ==
    \A i \in 1..Len(G) : \A k \in {1, 7, 14, 30} :
        df[G[i]][DiffColumn(k)] =
            IF i > k THEN Float(df[G[i]].price - df[G[i - k]].price) ELSE NaN

\* C3: for every item and every offset k of 1, 7, 14, 30, the row at position
\* i of the item's partition has diff_k = price[i] - price[i-k] when i >= k and
\* null when i < k, positions counting the rows of that item only.
C3_Diffs ==
    Featured => \A x \in ItemsOf(ge_df) : DiffsRight(ge_df, RowsOfItem(ge_df, x))

ExampleDiffs(df, G) ==
    /\ Len(G) > 30
    /\ G[1] > 1
    /\ IsNull(df[G[1]].diff_1_day)
    /\ df[G[6]].diff_1_day = Float(1)
    /\ df[G[10]].diff_7_day = Float(7)
    /\ IsNull(df[G[30]].diff_30_day)
    /\ df[G[31]].diff_30_day = Float(30)

\* A frame of two items in which the second item of the frame has the
\* differences of the series 100, 101, ...: diff_1d[5] = 1, diff_7d[9] = 7,
\* diff_1d[0] null, a first non-null diff_30d at position 30.
C3_Witness ==
    /\ Featured
    /\ \E x \in ItemsOf(ge_df) : ExampleDiffs(ge_df, RowsOfItem(ge_df, x))

-----------------------------------------------------------------------------
(* C4 *)

RECURSIVE SumPrices(_, _, _, _)
SumPrices(df, G, lo, hi) ==
    IF lo > hi THEN 0 ELSE df[G[lo]].price + SumPrices(df, G, lo + 1, hi)

\* The mean of the prices of the trailing min(w, i) rows at the i-th row of a
\* partition.
TrailingMean(df, G, i, w) ==
    Rat(SumPrices(df, G, IF i > w THEN i - w + 1 ELSE 1, i), IF i > w THEN w ELSE i)

MAsRight(df, G) ==
    \A i \in 1..Len(G) : \A w \in {7, 14, 30} :
        /\ df[G[i]][MAColumn(w)] = TrailingMean(df, G, i, w)
        /\ df[G[i]][DiffMAColumn(w)] =
              IF i > 1 THEN FSub(TrailingMean(df, G, i, w), TrailingMean(df, G, i - 1, w))
              ELSE NaN

\* C4: for every item and every window w of 7, 14, 30, the row at position i
\* of the item's partition has ma_w the mean of the prices of the trailing
\* min(w, i+1) rows of that partition and diff_ma_w = ma_w[i] - ma_w[i-1], null
\* on the partition's first row; for every row of every item of a batch.
C4_MovingAverages ==
    Featured => \A x \in ItemsOf(ge_df) : MAsRight(ge_df, RowsOfItem(ge_df, x))

-----------------------------------------------------------------------------
(* C5 *)

\* The retention condition as the claim words it.
Retained(r) ==
    /\ \A c \in {"diff_ma_7_day", "diff_ma_14_day", "diff_ma_30_day"} :
          ~IsNull(r[c]) /\ r[c][1] # 0
    /\ \A c \in {"diff_1_day", "diff_7_day", "diff_14_day", "diff_30_day"} :
          ~IsNull(r[c])

WithoutIndex(r) == [c \in (DOMAIN r) \ {"index"} |-> r[c]]

\* C5: the artifact filter keeps a row if and only if its three MA-diffs are
\* non-null and non-zero and its four diffs are non-null, and the survivors
\* are in the order they have in the unfiltered table.
C5_ArtifactFilter ==
    Filtered =>
        /\ \A j \in 1..Len(ge_enriched_df) :
              /\ ge_enriched_df[j].index + 1 \in 1..Len(ge_df)
              /\ WithoutIndex(ge_enriched_df[j]) = ge_df[ge_enriched_df[j].index + 1]
              /\ Retained(ge_df[ge_enriched_df[j].index + 1])
        /\ \A j \in 1..(Len(ge_enriched_df) - 1) :
              ge_enriched_df[j].index < ge_enriched_df[j + 1].index
        /\ \A p \in 1..Len(ge_df) :
              Retained(ge_df[p]) => \E j \in 1..Len(ge_enriched_df) :
                                        ge_enriched_df[j].index = p - 1

\* A filtered table with survivors, and a dropped row whose diff_ma_7d is 0
\* while its other two MA-diffs are non-zero and its diffs non-null.
C5_Witness ==
    /\ Filtered
    /\ ge_enriched_df # <<>>
    /\ \E p \in 1..Len(ge_df) :
          /\ ge_df[p].diff_ma_7_day = Float(0)
          /\ ~IsNull(ge_df[p].diff_ma_14_day) /\ ge_df[p].diff_ma_14_day[1] # 0
          /\ ~IsNull(ge_df[p].diff_ma_30_day) /\ ge_df[p].diff_ma_30_day[1] # 0
          /\ ~IsNull(ge_df[p].diff_30_day)
          /\ \A j \in 1..Len(ge_enriched_df) : ge_enriched_df[j].index # p - 1

-----------------------------------------------------------------------------
(* C6 *)

IsLeap(y) == y % 4 = 0 /\ (y % 100 # 0 \/ y % 400 = 0)

DaysInMonth(y, m) ==
    IF m \in {4, 6, 9, 11} THEN 30
    ELSE IF m = 2 THEN (IF IsLeap(y) THEN 29 ELSE 28)
    ELSE 31

\* The calendar date after a date.
NextDate(d) ==
    IF d[3] < DaysInMonth(d[1], d[2]) THEN <<d[1], d[2], d[3] + 1>>
    ELSE IF d[2] < 12 THEN <<d[1], d[2] + 1, 1>>
    ELSE <<d[1] + 1, 1, 1>>

\* The dates of the announcements collected, and of the reference series the
\* pipeline hands over (none when a user calls get_social_media_data()).
AnnouncementDates ==
    {SubSeq(social_dict_list[i].dateAdded, 1, 3) : i \in 1..Len(social_dict_list)}

ReferenceDates ==
    IF caller = "pipeline"
    THEN {ge_enriched_df[i].date_string : i \in 1..Len(ge_enriched_df)}
    ELSE {}

Earliest(S) == CHOOSE d \in S : \A e \in S : ~DateLess(e, d)

Latest(S) == CHOOSE d \in S : \A e \in S : ~DateLess(d, e)

CalendarComplete(agg, lo, hi) ==
    /\ agg # <<>>
    /\ agg[1].date_string = lo
    /\ agg[Len(agg)].date_string = hi
    /\ \A i \in 1..(Len(agg) - 1) : agg[i + 1].date_string = NextDate(agg[i].date_string)

\* C6: the daily event table has exactly one row for every calendar date from
\* lo to hi, the earliest and the latest of the announcement dates and the
\* reference-series dates, no row outside, in ascending date order.
C6_CalendarComplete ==
    Aggregated =>
        CalendarComplete(social_agg_df,
                         Earliest(AnnouncementDates \cup ReferenceDates),
                         Latest(AnnouncementDates \cup ReferenceDates))

\* Announcements on 2024-01-01 and 2024-01-05 only, no reference series: the
\* table has 5 rows, 3 of them with every flag false.
C6_Witness ==
    /\ Aggregated
    /\ caller = "user"
    /\ AnnouncementDates = {<<2024, 1, 1>>, <<2024, 1, 5>>}
    /\ Len(social_agg_df) = 5
    /\ \A i \in 2..4 :
          \A c \in {"launch_update", "quest_update", "event_update", "dxp_update",
                    "general_update", "boss_update"} : ~social_agg_df[i][c]

-----------------------------------------------------------------------------
(* C7 *)

FlagKeyword(c) ==
    CASE c = "launch_update" -> KwLaunch [] c = "boss_update" -> KwBoss
      [] c = "quest_update" -> KwQuest [] c = "event_update" -> KwEvent
      [] c = "dxp_update" -> KwDXP [] c = "general_update" -> KwUpdate

\* Some announcement of the day has a title containing the keyword.
AnnouncedOn(day, kw) ==
    \E i \in 1..Len(social_dict_list) :
        /\ SubSeq(social_dict_list[i].dateAdded, 1, 3) = day
        /\ social_dict_list[i].title.kind = "str"
        /\ Contains(social_dict_list[i].title.text, kw)

FlagsRight ==
    \A j \in 1..Len(social_agg_df) :
        \A c \in {"launch_update", "quest_update", "event_update", "dxp_update",
                  "general_update", "boss_update"} :
            social_agg_df[j][c] = AnnouncedOn(social_agg_df[j].date_string, FlagKeyword(c))

\* C7: once announcements are collected (and the reference series, if any, is
\* not empty), the aggregation raises nothing, whether titles are strings, null
\* or absent, and each flag of each day is true exactly when an announcement of
\* that day has a title containing the flag's keyword.
C7_FlagsByDay ==
    (social_dict_list # <<>> /\ ~(caller = "pipeline" /\ ge_enriched_df = <<>>)) =>
        (pc # "error" /\ FlagsRight)

-----------------------------------------------------------------------------
(* C8 *)

\* The columns of a merged row that the price row has.
PriceColumns(merged, price_row) == [c \in DOMAIN price_row |-> merged[c]]

\* The event dates cover the dates of the price rows.
Covered ==
    \A i \in 1..Len(ge_enriched_df) :
        \E j \in 1..Len(social_agg_df) :
            social_agg_df[j].date_string = ge_enriched_df[i].date_string

\* C8: the merge of N filtered price rows with the daily event table has at
\* least N rows, and exactly N when the event dates cover the price dates; the
\* price rows are all there, in the same order, their price columns unchanged.
C8_FusionKeepsRows ==
    Merged =>
        /\ Len(ge_final_df) >= Len(ge_enriched_df)
        /\ Covered =>
              /\ Len(ge_final_df) = Len(ge_enriched_df)
              /\ \A i \in 1..Len(ge_enriched_df) :
                    PriceColumns(ge_final_df[i], ge_enriched_df[i]) = ge_enriched_df[i]

\* A merge of at least three price rows of two items, one of them on a day
\* with an announcement and one on a day without.
C8_Witness ==
    /\ Merged
    /\ Len(ge_enriched_df) >= 3
    /\ Cardinality(ItemsOf(ge_enriched_df)) = 2
    /\ \E i \in 1..Len(ge_final_df) : ge_final_df[i].boss_update = TRUE
    /\ \E i \in 1..Len(ge_final_df) : ge_final_df[i].boss_update = FALSE

-----------------------------------------------------------------------------
(* C9 *)

PipelineStages == <<"acquire", "normalise", "features", "filter", "social", "merge">>

IsPrefix(s, t) == Len(s) <= Len(t) /\ SubSeq(t, 1, Len(s)) = s

SocialRequests == SelectSeq(requests, LAMBDA r : r.endpoint = "runescape/social")

\* C9: a call of get_historical_prices runs acquisition, normalisation, feature
\* computation and the filter in that order, then the event aggregation and the
\* merge only if integrate_social is true; with integrate_social false it
\* requests no announcement and returns the filter's output.
C9_StageOrder ==
    caller # "user" =>
        /\ IsPrefix(stages, PipelineStages)
        /\ ~integrate_social =>
              /\ ~Aggregated /\ ~Merged
              /\ SocialRequests = <<>>
              /\ pc = "done" => /\ stages = SubSeq(PipelineStages, 1, 4)
                                /\ ge_final_df = ge_enriched_df
        /\ (integrate_social /\ pc = "done") => stages = PipelineStages

\* A call with integrate_social false that has returned a table with rows.
C9_Witness ==
    /\ caller # "user"
    /\ pc = "done"
    /\ ~integrate_social
    /\ ge_final_df # <<>>

-----------------------------------------------------------------------------
(* C10 *)

\* The extent a setting asks for.
RequestedFilter(s) ==
    IF Lower(s) = S_last90d THEN "last90d"
    ELSE IF Lower(s) = S_sample THEN "sample"
    ELSE "all"

\* C10: when set_data_filter(s) has returned, data_filter is the extent s asks
\* for, the invalid-setting message was printed only if s is none of the three
\* names, and every price request made since carries the filter in force.
C10_SetDataFilter ==
    /\ setting # <<>> =>
          /\ data_filter = RequestedFilter(setting)
          /\ stdout = "invalid data filter" <=>
                Lower(setting) \notin {S_last90d, S_sample, S_all}
    /\ \A i \in 1..Len(requests) :
          requests[i].endpoint = "exchange/history" => requests[i].filter = data_filter

-----------------------------------------------------------------------------
(* C11 *)

PriceRequests == SelectSeq(requests, LAMBDA r : r.endpoint = "exchange/history")

\* C11: a call of get_historical_prices that has requested at least one item
\* raises nothing in acquisition, normalisation, feature computation or the
\* filter, whether or not the histories of its items are empty.
C11_EmptyPartition ==
    (caller # "user" /\ PriceRequests # <<>> /\ pc = "error") => Filtered

-----------------------------------------------------------------------------
(* C12 *)

\* The data of pages lo..hi of a feed, one page after the other.
RECURSIVE PagesData(_, _, _)
PagesData(feed, lo, hi) ==
    IF lo > hi THEN <<>>
    ELSE IF lo = hi THEN PageResponse(feed, lo).data
    ELSE PagesData(feed, lo, (lo + hi) \div 2) \o PagesData(feed, (lo + hi) \div 2 + 1, hi)

\* The first page whose response does not report has_more = true, or 100 if
\* every one of the first 100 responses reports it.
LastPage(feed) ==
    IF \E p \in 1..100 : PageResponse(feed, p).pagination.has_more # TRUE
    THEN CHOOSE p \in 1..100 :
            /\ PageResponse(feed, p).pagination.has_more # TRUE
            /\ \A q \in 1..(p - 1) : PageResponse(feed, q).pagination.has_more = TRUE
    ELSE 100

\* The requests and the records a call has collected are those of the pages
\* 1..LastPage of the feed, in page order.
CollectedFrom(feed) ==
    /\ Len(SocialRequests) = LastPage(feed)
    /\ \A p \in 1..Len(SocialRequests) : SocialRequests[p].page = p
    /\ social_dict_list = PagesData(feed, 1, LastPage(feed))

\* The page loop of the running call is over.
LoopDone == caller # "none" /\ pc # "social"

\* C12: whatever the feed, the page loop has ended after at most 100 turns;
\* and when it is over, the pages requested are 1, 2, ..., k in that order,
\* k being the first page whose has_more is not true or 100 if there is none,
\* and the records collected are the data of these k pages in page order.
C12_PageLoop ==
    /\ pc = "social" => \A feed \in Feeds : ~LoopGoesOn(LoopTurns(feed, LoopStart, 100))
    /\ LoopDone => /\ Len(SocialRequests) <= 100
                   /\ \E feed \in Feeds : CollectedFrom(feed)

\* A call that has stopped at the failsafe: 100 pages requested from a feed
\* that always reports has_more = true, its two announcements collected.
C12_Witness ==
    /\ LoopDone
    /\ Len(SocialRequests) = 100
    /\ Len(social_dict_list) = 2

-----------------------------------------------------------------------------
(* C13 *)

\* The number of rows of the item of row r that come before it in the
\* unfiltered table (r.index is the row's label there).
EarlierRows(df, r) == Cardinality({q \in 1..r.index : df[q].id = r.id})

\* C13: every row of the table get_historical_prices returns has at least 30
\* earlier rows of its item in the unfiltered table, and an item with 30 or
\* fewer records has no row in it.
C13_NoWarmupRow ==
    Filtered =>
        /\ \A j \in 1..Len(ge_final_df) : EarlierRows(ge_df, ge_final_df[j]) >= 30
        /\ \A x \in ItemsOf(ge_df) :
              Len(RowsOfItem(ge_df, x)) <= 30 => x \notin ItemsOf(ge_final_df)

\* A returned table holding a row with exactly 30 earlier rows of its item,
\* from an unfiltered table in which another item has 30 records.
C13_Witness ==
    /\ Filtered
    /\ \E j \in 1..Len(ge_final_df) : EarlierRows(ge_df, ge_final_df[j]) = 30
    /\ \E x \in ItemsOf(ge_df) : Len(RowsOfItem(ge_df, x)) = 30

====
